---- MODULE Spec2Model ----
(***************************************************************************)
(* Orchestration core of the 3D Gaussian Splatting training launcher:      *)
(* checkpoint inventory, resume resolution, segment scheduling, command    *)
(* building and the sequential train -> render -> metrics pipeline.        *)
(*                                                                         *)
(* Conventions                                                             *)
(*  - An Optional[T] value is a set: {} is None, {v} is the value v.       *)
(*  - A file name is a sequence of tokens: the literal pieces "chkpnt",    *)
(*    ".pth", "iteration", "_", the decimal digits "0".."9" and the letter *)
(*    "x" (standing for any character int() rejects).                      *)
(*  - Iteration numbers are small naturals; 1 and MaxIter play the roles   *)
(*    of the defaults 7000 and 30000 of config.py.                         *)
(***************************************************************************)
EXTENDS Integers, Sequences, FiniteSets, TLC

\* Largest iteration number (total iterations, evaluation points, checkpoints).
MaxIter == 3
\* Largest combined length of test_iterations and save_iterations.
MaxPoints == 2
\* Largest number of entries found in the model directory before the run.
MaxFiles == 2

----------------------------------------------------------------------------
(* Python built-ins used by the code *)

DigitChars == <<"0", "1", "2", "3", "4", "5", "6", "7", "8", "9">>

IsDigit(c) == \E i \in 1..10 : DigitChars[i] = c

DigitVal(c) == (CHOOSE i \in 1..10 : DigitChars[i] = c) - 1

RECURSIVE DecimalValue(_)
DecimalValue(s) ==
    IF s = <<>> THEN 0
    ELSE 10 * DecimalValue(SubSeq(s, 1, Len(s) - 1)) + DigitVal(s[Len(s)])

\* int(s): {} stands for ValueError.  Only digit strings are accepted here;
\* the names of the model use no sign, blank or underscore inside a number.
py_int(s) ==
    IF s # <<>> /\ \A i \in 1..Len(s) : IsDigit(s[i])
    THEN {DecimalValue(s)}
    ELSE {}

\* str(n) for n >= 0
RECURSIVE py_str(_)
py_str(n) ==
    IF n < 10 THEN <<DigitChars[n + 1]>>
    ELSE py_str(n \div 10) \o <<DigitChars[(n % 10) + 1]>>

\* s.replace(t, "") on a token sequence
py_replace(s, t) == SelectSeq(s, LAMBDA c : c # t)

\* s.split(t)[-1]: the tokens after the last occurrence of t
py_split_last(s, t) ==
    LET occ == {i \in 1..Len(s) : s[i] = t}
        last == IF occ = {} THEN 0 ELSE CHOOSE i \in occ : \A j \in occ : j <= i
    IN SubSeq(s, last + 1, Len(s))

\* Path.stem: the name without its last suffix
py_stem(name) ==
    IF Len(name) > 1 /\ name[Len(name)] = ".pth"
    THEN SubSeq(name, 1, Len(name) - 1)
    ELSE name

\* max() of a non-empty list
py_max(l) == CHOOSE m \in {l[i] : i \in 1..Len(l)} : \A i \in 1..Len(l) : l[i] <= m

\* sorted() of a list: ascending, every occurrence kept
RECURSIVE SortedIdx(_, _)
SortedIdx(l, I) ==
    IF I = {} THEN <<>>
    ELSE LET i == CHOOSE a \in I : \A b \in I : l[a] <= l[b]
         IN <<l[i]>> \o SortedIdx(l, I \ {i})

py_sorted(l) == SortedIdx(l, 1..Len(l))

\* set() of a list
py_set(l) == {l[i] : i \in 1..Len(l)}

\* a list holding the elements of a set once each (iteration order of a set
\* or of a directory listing is arbitrary; every use below sorts the result)
RECURSIVE ListOf(_)
ListOf(S) ==
    IF S = {} THEN <<>>
    ELSE LET e == CHOOSE a \in S : TRUE IN <<e>> \o ListOf(S \ {e})

----------------------------------------------------------------------------
(* The model output directory                                              *)
(*   exists      : the directory exists                                    *)
(*   files       : names of the regular files directly under it            *)
(*   point_cloud : entries of <model>/point_cloud, each with its name and  *)
(*                 whether it is a directory; the sub-directory exists     *)
(*                 exactly when it has an entry                            *)

The(S) == CHOOSE v \in S : TRUE

None == {}

\* f"chkpnt{n}.pth"
CheckpointName(n) == <<"chkpnt">> \o py_str(n) \o <<".pth">>

\* f"iteration_{n}"
SnapshotName(n) == <<"iteration", "_">> \o py_str(n)

\* glob("chkpnt*.pth")
GlobCheckpoint(name) ==
    Len(name) >= 2 /\ name[1] = "chkpnt" /\ name[Len(name)] = ".pth"

\* glob("iteration_*")
GlobSnapshot(name) ==
    Len(name) >= 2 /\ name[1] = "iteration" /\ name[2] = "_"

\* int(checkpoint_file.stem.replace("chkpnt", ""))
ParseCheckpoint(name) == py_int(py_replace(py_stem(name), "chkpnt"))

\* int(iteration_dir.name.split("_")[-1])
ParseSnapshot(name) == py_int(py_split_last(name, "_"))

\* the iterations appended by the first loop, one per file that parses
CheckpointIterations(d) ==
    LET found == SelectSeq(ListOf({f \in d.files : GlobCheckpoint(f)}),
                           LAMBDA f : ParseCheckpoint(f) # {})
    IN [i \in 1..Len(found) |-> The(ParseCheckpoint(found[i]))]

\* the iterations appended by the second loop
SnapshotIterations(d) ==
    LET found == SelectSeq(ListOf({e \in d.point_cloud : GlobSnapshot(e.name)}),
                           LAMBDA e : e.is_dir /\ ParseSnapshot(e.name) # {})
    IN [i \in 1..Len(found) |-> The(ParseSnapshot(found[i].name))]

detect_existing_checkpoints(d) ==
    IF ~d.exists THEN <<>>
    ELSE py_sorted(CheckpointIterations(d)
                   \o (IF d.point_cloud # {} THEN SnapshotIterations(d) ELSE <<>>))

\* get_resume_iteration without the test of resume_training
get_resume_iteration_always(cfg, d) ==
    LET existing_checkpoints == detect_existing_checkpoints(d) IN
    IF existing_checkpoints = <<>> THEN 0
    ELSE IF cfg.resume_from_iteration = -1 THEN py_max(existing_checkpoints)
    ELSE IF cfg.resume_from_iteration \notin py_set(existing_checkpoints)
         THEN py_max(existing_checkpoints)
         ELSE cfg.resume_from_iteration

\* get_resume_iteration taking the first checkpoint of the list for the latest
get_resume_iteration_first(cfg, d) ==
    IF ~cfg.resume_training THEN 0
    ELSE LET existing_checkpoints == detect_existing_checkpoints(d) IN
         IF existing_checkpoints = <<>> THEN 0
         ELSE IF cfg.resume_from_iteration = -1 THEN existing_checkpoints[1]
         ELSE IF cfg.resume_from_iteration \notin py_set(existing_checkpoints)
              THEN py_max(existing_checkpoints)
              ELSE cfg.resume_from_iteration

\* get_resume_iteration taking resume_from_iteration as it is given
get_resume_iteration_trusting(cfg, d) ==
    IF ~cfg.resume_training THEN 0
    ELSE LET existing_checkpoints == detect_existing_checkpoints(d) IN
         IF existing_checkpoints = <<>> THEN 0
         ELSE IF cfg.resume_from_iteration = -1 THEN py_max(existing_checkpoints)
         ELSE cfg.resume_from_iteration

\* get_resume_iteration without the test for an empty list
get_resume_iteration_unguarded(cfg, d) ==
    IF ~cfg.resume_training THEN 0
    ELSE LET existing_checkpoints == detect_existing_checkpoints(d) IN
         IF cfg.resume_from_iteration = -1
         THEN (IF existing_checkpoints = <<>> THEN 0 ELSE py_max(existing_checkpoints))
         ELSE IF cfg.resume_from_iteration \notin py_set(existing_checkpoints)
              THEN (IF existing_checkpoints = <<>> THEN cfg.resume_from_iteration
                    ELSE py_max(existing_checkpoints))
              ELSE cfg.resume_from_iteration

get_resume_iteration(cfg, d) ==
    IF ~cfg.resume_training THEN 0
    ELSE LET existing_checkpoints == detect_existing_checkpoints(d) IN
         IF existing_checkpoints = <<>> THEN 0
         ELSE IF cfg.resume_from_iteration = -1 THEN py_max(existing_checkpoints)
         ELSE IF cfg.resume_from_iteration \notin py_set(existing_checkpoints)
              THEN py_max(existing_checkpoints)
              ELSE cfg.resume_from_iteration

----------------------------------------------------------------------------
(* Segment boundaries (trainer.py, _execute_training_flow) *)

\* EvalPoints without the upper limit of the filter
EvalPoints_unbounded(cfg, resume) ==
    LET all == py_sorted(ListOf(py_set(cfg.test_iterations \o cfg.save_iterations)))
        kept == SelectSeq(all, LAMBDA p : resume < p)
    IN IF kept = <<>> \/ py_max(kept) < cfg.iterations
       THEN Append(kept, cfg.iterations)
       ELSE kept

\* EvalPoints without set(): repeated points are kept
EvalPoints_repeated(cfg, resume) ==
    LET all == py_sorted(cfg.test_iterations \o cfg.save_iterations)
        kept == SelectSeq(all, LAMBDA p : resume < p /\ p < cfg.iterations)
    IN IF kept = <<>> \/ py_max(kept) < cfg.iterations
       THEN Append(kept, cfg.iterations)
       ELSE kept

EvalPoints(cfg, resume) ==
    LET all == py_sorted(ListOf(py_set(cfg.test_iterations \o cfg.save_iterations)))
        kept == SelectSeq(all, LAMBDA p : resume < p /\ p < cfg.iterations)
    IN IF kept = <<>> \/ py_max(kept) < cfg.iterations
       THEN Append(kept, cfg.iterations)
       ELSE kept

----------------------------------------------------------------------------
(* Command builder.  A command is the argument list reduced to the flags   *)
(* that depend on the segment: the program, --iterations, --iteration and  *)
(* --start_checkpoint (each Optional).  The hyper-parameters, the boolean  *)
(* flags and the list arguments are copied from the configuration          *)
(* unchanged and are left out.                                             *)

Command(prog, iterations, iteration, start_checkpoint) ==
    [prog |-> prog, iterations |-> iterations, iteration |-> iteration,
     start_checkpoint |-> start_checkpoint]

\* CheckpointExists without looking at the disk
CheckpointExists_any(d, name) == TRUE

\* Path(checkpoint_file).exists()
CheckpointExists(d, name) == d.exists /\ name \in d.files

\* build_train_command looking for the checkpoint on every segment
build_train_command_every(d, start, end, is_first_segment) ==
    LET checkpoint_file == CheckpointName(start) IN
    Command("train.py", {end}, None,
            IF CheckpointExists(d, checkpoint_file)
            THEN {checkpoint_file} ELSE None)

build_train_command(d, start, end, is_first_segment) ==
    LET checkpoint_file == CheckpointName(start) IN
    Command("train.py", {end}, None,
            IF start > 0 \/ ~is_first_segment
            THEN (IF CheckpointExists(d, checkpoint_file)
                  THEN {checkpoint_file} ELSE None)
            ELSE None)

\* "if iteration:" is false for None and for 0
Truthy(iteration) == iteration # None /\ iteration # {0}

\* build_render_command without --iteration
build_render_command_unselected(iteration) ==
    Command("render.py", None, None, None)

build_render_command(iteration) ==
    Command("render.py", None, IF Truthy(iteration) THEN iteration ELSE None, None)

build_metrics_command(iteration) ==
    Command("metrics.py", None, None, None)

----------------------------------------------------------------------------
(* State *)

VARIABLES
    config,       \* the job configuration (AppConfig), fixed after load
    model_dir,    \* the model output directory on disk
    cwd,          \* the process's working directory
    cwd_stack,    \* chdir_context: original_cwd of each open context, outermost first
    paths,        \* validate_paths: the paths it found or missed (Optional)
    setup_log,    \* the commands run_command has run, in order
    exc,          \* the exception being raised or handled (Optional)
    pc,           \* the controller's position in train / _execute_training_flow
    existing_checkpoints, \* get_resume_iteration: the inventory it scanned (Optional)
    resume_iter,  \* _execute_training_flow: resume_iter
    eval_points,  \* _execute_training_flow: eval_points
    idx,          \* _execute_training_flow: position of the for loop (1-based)
    start_iter,   \* _execute_training_flow: start_iter
    proc,         \* the child process subprocess.run is waiting for (Optional)
    trace,        \* the stage calls made so far, in order
    failed,       \* the stages of which some child has exited non-zero
    exit_status   \* the orchestrator's exit status (Optional)

vars == <<config, model_dir, cwd, cwd_stack, paths, setup_log, exc, pc,
          existing_checkpoints, resume_iter, eval_points, idx, start_iter,
          proc, trace, failed, exit_status>>

\* config.py: the defaults of TrainingConfig, PostProcessingConfig and
\* SetupConfig, with 1 and MaxIter for 7000 and 30000
DefaultConfig ==
    [iterations |-> MaxIter,
     test_iterations |-> <<1, MaxIter>>,
     save_iterations |-> <<1, MaxIter>>,
     resume_training |-> FALSE,
     resume_from_iteration |-> -1,
     enable_render |-> TRUE,
     enable_metrics |-> TRUE,
     enable_intermediate_eval |-> TRUE,
     install_accelerated_rasterizer |-> FALSE]

Lists(n) == UNION {[1..k -> 0..MaxIter] : k \in 0..n}

NoDir == [exists |-> FALSE, files |-> {}, point_cloud |-> {}]

\* names a model directory may hold: checkpoints of every iteration, one
\* written with a leading zero, one whose number does not parse, one that
\* is no checkpoint
FilePool ==
    {CheckpointName(n) : n \in 0..MaxIter}
    \cup {<<"chkpnt", "0", "2", ".pth">>, <<"chkpnt", "x", ".pth">>, <<"x", ".pth">>}

\* entries point_cloud/ may hold: snapshot directories, one whose number
\* does not parse, and a regular file named like a snapshot
SnapshotPool ==
    {[name |-> SnapshotName(n), is_dir |-> TRUE] : n \in 1..MaxIter}
    \cup {[name |-> <<"iteration", "_", "x">>, is_dir |-> TRUE],
          [name |-> SnapshotName(MaxIter), is_dir |-> FALSE]}

Dirs ==
    {NoDir} \cup
    {[exists |-> TRUE, files |-> F, point_cloud |-> P] :
        <<F, P>> \in {fp \in (SUBSET FilePool) \X (SUBSET SnapshotPool) :
                        /\ Cardinality(fp[1]) + Cardinality(fp[2]) <= MaxFiles
                        /\ \A a, b \in fp[2] : a.name = b.name => a = b}}

\* a directory with at most one checkpoint file
SimpleDirs ==
    {NoDir} \cup
    {[exists |-> TRUE, files |-> {CheckpointName(n)}, point_cloud |-> {}] :
        n \in 1..MaxIter}

\* every schedule, on a directory that resolves to each start
ScheduleConfigs ==
    {[DefaultConfig EXCEPT !.iterations = t, !.test_iterations = ts[1],
                           !.save_iterations = ts[2],
                           !.enable_intermediate_eval = ie,
                           !.resume_training = TRUE] :
        t \in 1..MaxIter, ie \in BOOLEAN,
        ts \in {l \in Lists(MaxPoints) \X Lists(MaxPoints) :
                    Len(l[1]) + Len(l[2]) <= MaxPoints}}

\* every resume setting, on every directory
ResumeConfigs ==
    {[DefaultConfig EXCEPT !.resume_training = rt, !.resume_from_iteration = rf] :
        rt \in BOOLEAN, rf \in {-1} \cup 0..MaxIter}

\* every combination of the post-processing toggles
ToggleConfigs ==
    {[DefaultConfig EXCEPT !.enable_render = er, !.enable_metrics = em,
                           !.enable_intermediate_eval = ie,
                           !.resume_training = rt] :
        er \in BOOLEAN, em \in BOOLEAN, ie \in BOOLEAN, rt \in BOOLEAN}

\* the accelerated rasterizer is to be installed
InstallConfigs ==
    {[DefaultConfig EXCEPT !.install_accelerated_rasterizer = TRUE,
                           !.enable_intermediate_eval = ie,
                           !.resume_training = rt] :
        ie \in BOOLEAN, rt \in BOOLEAN}

\* main has parsed "-c <config>" and is about to construct the trainer
Started ==
    /\ cwd = "invocation"
    /\ cwd_stack = <<>>
    /\ paths = None
    /\ setup_log = <<>>
    /\ exc = None
    /\ pc = "load"
    /\ existing_checkpoints = None
    /\ resume_iter = 0
    /\ eval_points = <<>>
    /\ idx = 0
    /\ start_iter = 0
    /\ proc = None
    /\ trace = <<>>
    /\ failed = {}
    /\ exit_status = None

Init ==
    /\ \/ config \in ScheduleConfigs /\ model_dir \in SimpleDirs
       \/ config \in ResumeConfigs /\ model_dir \in Dirs
       \/ config \in ToggleConfigs /\ model_dir \in SimpleDirs
       \/ config \in InstallConfigs /\ model_dir \in SimpleDirs
    /\ Started

----------------------------------------------------------------------------
(* Actions *)

StageCall(stage, start, iteration, first, cmd) ==
    [stage |-> stage, start |-> start, iteration |-> iteration,
     first |-> first, cmd |-> cmd]

\* exit statuses of a child process: 0, or 1 for any non-zero status
ExitCodes == {0, 1}

\* the exceptions load_config logs and raises again
LoadErrors == {"FileNotFoundError", "YAMLError", "TypeError", "ValueError"}

\* GaussianSplattingTrainer.__init__: load_config.  Whether the job file can
\* be read and is well-formed is read from the environment.  An exception
\* leaves __init__, which main calls outside train's try block.
load_config ==
    /\ pc = "load"
    /\ \/ pc' = "validate" /\ UNCHANGED exc
       \/ \E e \in LoadErrors : exc' = {e} /\ pc' = "main_except"
    /\ UNCHANGED <<config, model_dir, cwd, cwd_stack, paths, setup_log,
                   existing_checkpoints, resume_iter, eval_points, idx,
                   start_iter, proc, trace, failed, exit_status>>

\* ValidationOutcome looking at the toolchain directory only
ValidationOutcome_toolchain_only(toolchain_exists, source_exists) ==
    toolchain_exists

\* validate_paths returns if both paths exist and raises FileNotFoundError
\* otherwise
ValidationOutcome(toolchain_exists, source_exists) ==
    toolchain_exists /\ source_exists

\* trainer.train: validate_paths.  Whether the toolchain directory and the
\* source data exist is read from the environment.
validate_paths ==
    /\ pc = "validate"
    /\ \E toolchain_exists, source_exists \in BOOLEAN :
          /\ paths' = {[toolchain_exists |-> toolchain_exists,
                        source_exists |-> source_exists]}
          /\ IF ValidationOutcome(toolchain_exists, source_exists)
             THEN pc' = "chdir" /\ UNCHANGED exc
             ELSE pc' = "except" /\ exc' = {"FileNotFoundError"}
    /\ UNCHANGED <<config, model_dir, cwd, cwd_stack, setup_log,
                   existing_checkpoints, resume_iter, eval_points, idx,
                   start_iter, proc, trace, failed, exit_status>>

\* chdir_context up to the yield: the working directory is saved and changed
EnterDirectory(path) ==
    /\ cwd_stack' = Append(cwd_stack, cwd)
    /\ cwd' = path

\* chdir_context, entering the with block of train
chdir_enter ==
    /\ pc = "chdir"
    /\ EnterDirectory("gaussian-splatting")
    /\ pc' = "setup"
    /\ UNCHANGED <<config, model_dir, paths, setup_log, exc,
                   existing_checkpoints, resume_iter, eval_points, idx,
                   start_iter, proc, trace, failed, exit_status>>

\* where control goes after the finally clause of chdir_context
AfterContext(at) ==
    CASE at = "leave" -> "summary"
      [] at = "unwind" -> "except"
      [] at = "inner_leave" -> "flow"
      [] at = "inner_unwind" -> "unwind"

\* RestoredDirectory without try/finally: restored on return only
RestoredDirectory_return(at) ==
    IF at \in {"leave", "inner_leave"} THEN cwd_stack[Len(cwd_stack)] ELSE cwd

\* the directory the finally clause changes to, os.chdir(original_cwd),
\* whichever way the with block is left
RestoredDirectory(at) == cwd_stack[Len(cwd_stack)]

\* chdir_context, the finally clause: a with block is left by return
\* ("leave", "inner_leave") or by an exception passing through ("unwind",
\* "inner_unwind")
chdir_exit ==
    /\ pc \in {"leave", "unwind", "inner_leave", "inner_unwind"}
    /\ cwd' = RestoredDirectory(pc)
    /\ cwd_stack' = SubSeq(cwd_stack, 1, Len(cwd_stack) - 1)
    /\ pc' = AfterContext(pc)
    /\ UNCHANGED <<config, model_dir, paths, setup_log, exc,
                   existing_checkpoints, resume_iter, eval_points, idx,
                   start_iter, proc, trace, failed, exit_status>>

\* what becomes of a step of the installation: on success the next step; a
\* RuntimeError of run_command is caught by "except RuntimeError" and the
\* with block is left by return; any other exception passes through
InstallOutcome(step, error) ==
    IF error = None
    THEN CASE step = "uninstall" -> "rmtree"
           [] step = "rmtree" -> "checkout"
           [] step = "checkout" -> "install"
           [] step = "install" -> "inner_leave"
    ELSE IF error = {"RuntimeError"} THEN "inner_leave"
    ELSE "inner_unwind"

\* setup_environment and install_accelerated_rasterizer up to the first
\* command.  Whether the rasterizer directory exists is read from the
\* environment.
setup_environment ==
    /\ pc = "setup"
    /\ IF ~config.install_accelerated_rasterizer
       THEN pc' = "flow" /\ UNCHANGED <<cwd, cwd_stack>>
       ELSE \E rasterizer_dir_exists \in BOOLEAN :
               IF ~rasterizer_dir_exists
               THEN pc' = "flow" /\ UNCHANGED <<cwd, cwd_stack>>
               ELSE EnterDirectory("rasterizer") /\ pc' = "uninstall"
    /\ UNCHANGED <<config, model_dir, paths, setup_log, exc,
                   existing_checkpoints, resume_iter, eval_points, idx,
                   start_iter, proc, trace, failed, exit_status>>

\* run_command for the pip uninstall, git checkout and pip install steps:
\* the command runs to its end; a non-zero exit status becomes a RuntimeError
run_command ==
    /\ pc \in {"uninstall", "checkout", "install"}
    /\ setup_log' = Append(setup_log, pc)
    /\ \E code \in ExitCodes :
          LET error == IF code = 0 THEN None ELSE {"RuntimeError"} IN
          /\ pc' = InstallOutcome(pc, error)
          /\ failed' = IF code = 0 THEN failed ELSE failed \cup {"setup"}
          /\ exc' = IF InstallOutcome(pc, error) = "inner_unwind" THEN error ELSE exc
    /\ UNCHANGED <<config, model_dir, cwd, cwd_stack, paths,
                   existing_checkpoints, resume_iter, eval_points, idx,
                   start_iter, proc, trace, exit_status>>

\* "if build_dir.exists(): shutil.rmtree(build_dir)".  Whether build/ exists
\* and whether it can be removed is read from the environment; a removal
\* that fails raises OSError.
remove_build_dir ==
    /\ pc = "rmtree"
    /\ \E build_exists, removable \in BOOLEAN :
          LET error == IF build_exists /\ ~removable THEN {"OSError"} ELSE None IN
          /\ pc' = InstallOutcome(pc, error)
          /\ failed' = IF error = None THEN failed ELSE failed \cup {"setup"}
          /\ exc' = IF InstallOutcome(pc, error) = "inner_unwind" THEN error ELSE exc
    /\ UNCHANGED <<config, model_dir, cwd, cwd_stack, paths, setup_log,
                   existing_checkpoints, resume_iter, eval_points, idx,
                   start_iter, proc, trace, exit_status>>

\* AlreadyComplete with > for >=
AlreadyComplete_strict(resume, total) == resume > total

\* "if resume_iter >= total_iters": nothing is left to train
AlreadyComplete(resume, total) == resume >= total

\* _execute_training_flow up to its first stage call
execute_training_flow ==
    /\ pc = "flow"
    /\ existing_checkpoints' = IF config.resume_training
                               THEN {detect_existing_checkpoints(model_dir)}
                               ELSE None
    /\ LET resume == get_resume_iteration(config, model_dir) IN
       /\ resume_iter' = resume
       /\ IF AlreadyComplete(resume, config.iterations)
          THEN /\ pc' = "early_render"
               /\ UNCHANGED <<eval_points, idx, start_iter>>
          ELSE IF ~config.enable_intermediate_eval
          THEN /\ pc' = "single_train"
               /\ UNCHANGED <<eval_points, idx, start_iter>>
          ELSE /\ eval_points' = EvalPoints(config, resume)
               /\ start_iter' = resume
               /\ idx' = 1
               /\ pc' = "loop"
    /\ UNCHANGED <<config, model_dir, cwd, proc, trace, failed, exit_status,
                   cwd_stack, paths, setup_log, exc>>

\* SpawnTraining with the command built for the configured total
SpawnTraining_total(start, end, is_first_segment) ==
    LET cmd == build_train_command(model_dir, start, config.iterations,
                                   is_first_segment) IN
    /\ proc' = {cmd}
    /\ trace' = Append(trace, StageCall("train", {start}, {end},
                                        {is_first_segment}, {cmd}))

\* _run_training_segment up to subprocess.run: the command is built and the
\* child is spawned
SpawnTraining(start, end, is_first_segment) ==
    LET cmd == build_train_command(model_dir, start, end, is_first_segment) IN
    /\ proc' = {cmd}
    /\ trace' = Append(trace, StageCall("train", {start}, {end},
                                        {is_first_segment}, {cmd}))

\* train_single with is_first_segment left at its default, True
train_single_first ==
    /\ pc = "single_train" /\ proc = None
    /\ SpawnTraining(resume_iter, config.iterations, TRUE)
    /\ UNCHANGED <<config, model_dir, cwd, pc, existing_checkpoints,
                   resume_iter, eval_points, idx, start_iter, failed,
                   exit_status, cwd_stack, paths, setup_log, exc>>

\* the single training call made when intermediate evaluation is disabled
train_single ==
    /\ pc = "single_train" /\ proc = None
    /\ SpawnTraining(resume_iter, config.iterations, resume_iter = 0)
    /\ UNCHANGED <<config, model_dir, cwd, pc, existing_checkpoints,
                   resume_iter, eval_points, idx, start_iter, failed,
                   exit_status, cwd_stack, paths, setup_log, exc>>

\* the head of the for loop and the training call of its body
train_segment ==
    /\ pc = "loop" /\ proc = None
    /\ IF idx > Len(eval_points)
       THEN /\ pc' = "final_render"
            /\ UNCHANGED <<idx, proc, trace>>
       ELSE IF start_iter >= eval_points[idx]
       THEN /\ idx' = idx + 1
            /\ UNCHANGED <<pc, proc, trace>>
       ELSE /\ SpawnTraining(start_iter, eval_points[idx], start_iter = 0)
            /\ UNCHANGED <<pc, idx>>
    /\ UNCHANGED <<config, model_dir, cwd, existing_checkpoints, resume_iter,
                   eval_points, start_iter, failed, exit_status, cwd_stack,
                   paths, setup_log, exc>>

\* TrainingOutcome with the CalledProcessError swallowed
TrainingOutcome_swallowed(at, code) ==
    IF at = "single_train" THEN "final_render" ELSE "seg_render"

\* where the flow goes when the training process exits with code: on to the
\* stage after the call, or out with a RuntimeError
TrainingOutcome(at, code) ==
    IF code = 0
    THEN (IF at = "single_train" THEN "final_render" ELSE "seg_render")
    ELSE "unwind"

\* CommandExecutor.run_training_segment after subprocess.run: the training
\* process has exited.  A successful trainer may have saved chkpnt<end>.pth.
run_training_segment ==
    /\ pc \in {"single_train", "loop"} /\ proc # None
    /\ \E code \in ExitCodes :
          /\ pc' = TrainingOutcome(pc, code)
          /\ failed' = IF code = 0 THEN failed ELSE failed \cup {"train"}
          /\ exc' = IF code = 0 THEN exc ELSE {"RuntimeError"}
          /\ IF code = 0
             THEN \E saved \in BOOLEAN :
                     model_dir' =
                        IF saved
                        THEN [exists |-> TRUE,
                              files |-> model_dir.files
                                        \cup {CheckpointName(The(The(proc).iterations))},
                              point_cloud |-> model_dir.point_cloud]
                        ELSE model_dir
             ELSE UNCHANGED model_dir
    /\ proc' = None
    /\ UNCHANGED <<config, cwd, existing_checkpoints, resume_iter,
                   eval_points, idx, start_iter, trace, exit_status,
                   cwd_stack, paths, setup_log>>

\* what follows a render or metrics call at each call site
AfterStage(at) ==
    CASE at = "early_render" -> "early_metrics"
      [] at = "early_metrics" -> "leave"
      [] at = "seg_render" -> "seg_metrics"
      [] at = "seg_metrics" -> "loop"
      [] at = "final_render" -> "final_metrics"
      [] at = "final_metrics" -> "leave"

\* StageIteration with the final pass asking for the last iteration
StageIteration_final(at) ==
    IF at \in {"seg_render", "seg_metrics"} THEN {eval_points[idx]}
    ELSE IF at \in {"final_render", "final_metrics"} THEN {config.iterations}
    ELSE None

\* the iteration argument of the render / metrics call at each call site
StageIteration(at) ==
    IF at \in {"seg_render", "seg_metrics"} THEN {eval_points[idx]} ELSE None

\* RecoverableOutcome with the CalledProcessError raised again
RecoverableOutcome_raised(at, code) ==
    IF code = 0 THEN AfterStage(at) ELSE "unwind"

\* where the flow goes when a render or metrics process exits with code:
\* a CalledProcessError is logged and not raised again
RecoverableOutcome(at, code) == AfterStage(at)

\* LoopBodyEnd without "start_iter = end_iter"
LoopBodyEnd_stale ==
    /\ UNCHANGED start_iter
    /\ idx' = idx + 1

\* the end of the loop body, "start_iter = end_iter", and the step of the loop
LoopBodyEnd ==
    /\ start_iter' = eval_points[idx]
    /\ idx' = idx + 1

\* leaving a render or metrics call towards next
Advance(next) ==
    /\ pc' = next
    /\ IF pc = "seg_metrics" /\ next = "loop"
       THEN LoopBodyEnd
       ELSE UNCHANGED <<start_iter, idx>>

RenderSites == {"early_render", "seg_render", "final_render"}

MetricsSites == {"early_metrics", "seg_metrics", "final_metrics"}

\* _run_rendering and CommandExecutor.run_rendering up to subprocess.run
run_rendering ==
    /\ pc \in RenderSites /\ proc = None
    /\ LET cmd == build_render_command(StageIteration(pc)) IN
       IF ~config.enable_render
       THEN /\ trace' = Append(trace, StageCall("render", None, StageIteration(pc),
                                                None, None))
            /\ Advance(AfterStage(pc))
            /\ UNCHANGED proc
       ELSE /\ trace' = Append(trace, StageCall("render", None, StageIteration(pc),
                                                None, {cmd}))
            /\ proc' = {cmd}
            /\ UNCHANGED <<pc, start_iter, idx>>
    /\ UNCHANGED <<config, model_dir, cwd, existing_checkpoints, resume_iter,
                   eval_points, failed, exit_status, cwd_stack, paths,
                   setup_log, exc>>

\* CommandExecutor.run_rendering after subprocess.run: the render process has
\* exited; a non-zero status is logged and the flow goes on
rendering_exit ==
    /\ pc \in RenderSites /\ proc # None
    /\ \E code \in ExitCodes :
          /\ failed' = IF code = 0 THEN failed ELSE failed \cup {"render"}
          /\ Advance(RecoverableOutcome(pc, code))
    /\ proc' = None
    /\ UNCHANGED <<config, model_dir, cwd, existing_checkpoints, resume_iter,
                   eval_points, trace, exit_status, cwd_stack, paths,
                   setup_log, exc>>

\* run_metrics returning early on the toggle of the render stage
run_metrics_coupled ==
    /\ pc \in MetricsSites /\ proc = None
    /\ LET cmd == build_metrics_command(StageIteration(pc)) IN
       IF ~config.enable_render
       THEN /\ trace' = Append(trace, StageCall("metrics", None, StageIteration(pc),
                                                None, None))
            /\ Advance(AfterStage(pc))
            /\ UNCHANGED proc
       ELSE /\ trace' = Append(trace, StageCall("metrics", None, StageIteration(pc),
                                                None, {cmd}))
            /\ proc' = {cmd}
            /\ UNCHANGED <<pc, start_iter, idx>>
    /\ UNCHANGED <<config, model_dir, cwd, existing_checkpoints, resume_iter,
                   eval_points, failed, exit_status, cwd_stack, paths,
                   setup_log, exc>>

\* _run_metrics and CommandExecutor.run_metrics up to subprocess.run
run_metrics ==
    /\ pc \in MetricsSites /\ proc = None
    /\ LET cmd == build_metrics_command(StageIteration(pc)) IN
       IF ~config.enable_metrics
       THEN /\ trace' = Append(trace, StageCall("metrics", None, StageIteration(pc),
                                                None, None))
            /\ Advance(AfterStage(pc))
            /\ UNCHANGED proc
       ELSE /\ trace' = Append(trace, StageCall("metrics", None, StageIteration(pc),
                                                None, {cmd}))
            /\ proc' = {cmd}
            /\ UNCHANGED <<pc, start_iter, idx>>
    /\ UNCHANGED <<config, model_dir, cwd, existing_checkpoints, resume_iter,
                   eval_points, failed, exit_status, cwd_stack, paths,
                   setup_log, exc>>

\* CommandExecutor.run_metrics after subprocess.run
metrics_exit ==
    /\ pc \in MetricsSites /\ proc # None
    /\ \E code \in ExitCodes :
          /\ failed' = IF code = 0 THEN failed ELSE failed \cup {"metrics"}
          /\ Advance(RecoverableOutcome(pc, code))
    /\ proc' = None
    /\ UNCHANGED <<config, model_dir, cwd, existing_checkpoints, resume_iter,
                   eval_points, trace, exit_status, cwd_stack, paths,
                   setup_log, exc>>

\* print_final_results, then train and main return: exit status 0
print_final_results ==
    /\ pc = "summary"
    /\ pc' = "Completed"
    /\ exit_status' = {0}
    /\ UNCHANGED <<config, model_dir, cwd, existing_checkpoints, resume_iter,
                   eval_points, idx, start_iter, proc, trace, failed,
                   cwd_stack, paths, setup_log, exc>>

\* HandledByTrain with a bare "except:"
HandledByTrain_bare(e) == TRUE

\* "except (FileNotFoundError, ValueError, RuntimeError)" and "except
\* Exception" of train catch every exception but KeyboardInterrupt, which
\* is no Exception
HandledByTrain(e) == e # {"KeyboardInterrupt"}

\* the except clauses of train: the error is logged and sys.exit(1) is
\* called; an exception they do not catch goes on to main
train_except ==
    /\ pc = "except"
    /\ IF HandledByTrain(exc)
       THEN pc' = "Aborted" /\ exit_status' = {1}
       ELSE pc' = "main_except" /\ UNCHANGED exit_status
    /\ UNCHANGED <<config, model_dir, cwd, cwd_stack, paths, setup_log, exc,
                   existing_checkpoints, resume_iter, eval_points, idx,
                   start_iter, proc, trace, failed>>

\* main: "except KeyboardInterrupt" calls sys.exit(130); any other
\* exception leaves main and the interpreter exits with status 1
main_except ==
    /\ pc = "main_except"
    /\ IF exc = {"KeyboardInterrupt"}
       THEN pc' = "Interrupted" /\ exit_status' = {130}
       ELSE pc' = "Uncaught" /\ exit_status' = {1}
    /\ UNCHANGED <<config, model_dir, cwd, cwd_stack, paths, setup_log, exc,
                   existing_checkpoints, resume_iter, eval_points, idx,
                   start_iter, proc, trace, failed>>

Next ==
    \/ load_config
    \/ validate_paths
    \/ chdir_enter
    \/ setup_environment
    \/ run_command
    \/ remove_build_dir
    \/ chdir_exit
    \/ execute_training_flow
    \/ train_single
    \/ train_segment
    \/ run_training_segment
    \/ run_rendering
    \/ rendering_exit
    \/ run_metrics
    \/ metrics_exit
    \/ print_final_results
    \/ train_except
    \/ main_except

Spec == Init /\ [][Next]_vars

\* the positions at which the run has ended
Ended == {"Completed", "Aborted", "Interrupted", "Uncaught"}

\* the operator interrupts the run: KeyboardInterrupt is raised in the
\* controller wherever it is, subprocess.run kills the child it waits for,
\* and the exception passes through the with blocks that are open
keyboard_interrupt ==
    /\ pc \notin Ended \cup {"main_except"}
    /\ exc' = {"KeyboardInterrupt"}
    /\ proc' = None
    /\ pc' = CASE Len(cwd_stack) = 0 -> "main_except"
              [] Len(cwd_stack) = 1 -> "unwind"
              [] Len(cwd_stack) = 2 -> "inner_unwind"
    /\ UNCHANGED <<config, model_dir, cwd, cwd_stack, paths, setup_log,
                   existing_checkpoints, resume_iter, eval_points, idx,
                   start_iter, trace, failed, exit_status>>

InitInterrupt ==
    /\ config \in ToggleConfigs \cup InstallConfigs
    /\ model_dir \in SimpleDirs
    /\ Started

NextInterrupt == Next \/ keyboard_interrupt

SpecInterrupt == InitInterrupt /\ [][NextInterrupt]_vars

----------------------------------------------------------------------------
(* Properties *)

\* the training calls made so far
Trains == SelectSeq(trace, LAMBDA c : c.stage = "train")

\* the child processes spawned so far
Spawned == SelectSeq(trace, LAMBDA c : c.cmd # None)

\* _execute_training_flow has resolved the resume point
FlowRan ==
    /\ pc \notin {"load", "validate", "chdir", "setup", "uninstall", "rmtree",
                 "checkout", "install", "inner_leave", "inner_unwind", "flow",
                 "main_except", "Uncaught", "Interrupted"}
    /\ pc \in {"unwind", "except", "Aborted"} => "train" \in failed

\* every training call of the flow has returned
LoopDone == pc \in {"final_render", "final_metrics", "leave", "summary", "Completed"}

\* the stage calls of a trace without their commands
Stages(t) ==
    [i \in 1..Len(t) |->
        [stage |-> t[i].stage, start |-> t[i].start, iteration |-> t[i].iteration]]

Stage(stage, start, iteration) ==
    [stage |-> stage, start |-> start, iteration |-> iteration]

\* The stages a run from start b has to make (spec 4.3, 4.6): one training
\* call per boundary, an evaluation after each when intermediate evaluation
\* is on, and the final pass.
RECURSIVE PlanFrom(_, _, _)
PlanFrom(prev, B, eval) ==
    IF B = {} THEN <<>>
    ELSE LET p == CHOOSE x \in B : \A y \in B : x <= y IN
         <<Stage("train", {prev}, {p})>>
         \o (IF eval THEN <<Stage("render", None, {p}), Stage("metrics", None, {p})>>
             ELSE <<>>)
         \o PlanFrom(p, B \ {p}, eval)

PlannedStages(cfg, b) ==
    LET points == py_set(cfg.test_iterations) \cup py_set(cfg.save_iterations)
        B == IF cfg.enable_intermediate_eval
             THEN {p \in points : b < p /\ p < cfg.iterations} \cup {cfg.iterations}
             ELSE {cfg.iterations}
    IN (IF b >= cfg.iterations THEN <<>>
        ELSE PlanFrom(b, B, cfg.enable_intermediate_eval))
       \o <<Stage("render", None, None), Stage("metrics", None, None)>>

\* C1: once a training process has exited non-zero the run is on its way out:
\* the failed training call is the last stage call ever made, no child is
\* running, the summary is never reached, and the exit status, once set, is 1.
C1_TrainingFailureAborts ==
    "train" \in failed =>
        /\ pc \in {"unwind", "except", "Aborted"}
        /\ proc = None
        /\ trace # <<>> /\ trace[Len(trace)].stage = "train"
        /\ exit_status = IF pc = "Aborted" THEN {1} ELSE None

\* C1 witness: the training of a later segment failed and the run exited
C1_Witness ==
    /\ pc = "Aborted" /\ "train" \in failed
    /\ Len(Trains) >= 2
    /\ exit_status = {1}

\* C2: a run in which a render or metrics process has failed and no training
\* process has failed never takes the abort path, never exits non-zero, and
\* when it ends it is Completed having made every planned stage call, each
\* enabled stage with a child process.
C2_RecoverableFailuresComplete ==
    (failed \cap {"render", "metrics"} # {} /\ "train" \notin failed) =>
        /\ pc \notin {"unwind", "except", "Aborted"}
        /\ exit_status \subseteq {0}
        /\ exit_status # None => pc = "Completed"
        /\ pc = "Completed" =>
              /\ Stages(trace) = PlannedStages(config, resume_iter)
              /\ \A i \in 1..Len(trace) :
                    /\ trace[i].stage = "render" =>
                          (trace[i].cmd # None <=> config.enable_render)
                    /\ trace[i].stage = "metrics" =>
                          (trace[i].cmd # None <=> config.enable_metrics)

\* C2 witness: render and metrics children failed, at a segment boundary
\* among others, and the run completed
C2_Witness ==
    /\ pc = "Completed"
    /\ {"render", "metrics"} \subseteq failed
    /\ Len(Trains) >= 2
    /\ exit_status = {0}

\* C3: with intermediate evaluation on and start < total, the boundaries are
\* not empty, the first lies beyond the start (so a segment is made), the
\* last is total, and when the loop is over the last training call ended at
\* total.
C3_LastSegmentEndsAtTotal ==
    (config.enable_intermediate_eval /\ FlowRan /\ resume_iter < config.iterations) =>
        /\ eval_points # <<>>
        /\ resume_iter < eval_points[1]
        /\ eval_points[Len(eval_points)] = config.iterations
        /\ LoopDone =>
              /\ Trains # <<>>
              /\ Trains[Len(Trains)].iteration = {config.iterations}

\* C3 witness: a completed run resumed from b > 0 whose points include one at
\* or before b and one at or beyond total
C3_Witness ==
    /\ pc = "Completed" /\ config.enable_intermediate_eval
    /\ 0 < resume_iter /\ resume_iter < config.iterations
    /\ LET points == py_set(config.test_iterations \o config.save_iterations) IN
          /\ \E p \in points : p <= resume_iter
          /\ \E p \in points : p >= config.iterations

\* C4: for a start b < total the training calls are contiguous half-open
\* ranges from b on: the first starts at b, each later one at the end of the
\* one before, each has start < end, none ends at or before b or beyond
\* total, and when the loop is over the last has ended at total.
C4_SegmentsTile ==
    (FlowRan /\ resume_iter < config.iterations) =>
        LET T == Trains IN
        /\ T # <<>> => T[1].start = {resume_iter}
        /\ \A i \in 2..Len(T) : T[i].start = T[i - 1].iteration
        /\ \A i \in 1..Len(T) :
              /\ The(T[i].start) < The(T[i].iteration)
              /\ resume_iter < The(T[i].iteration)
              /\ The(T[i].iteration) <= config.iterations
              /\ T[i].cmd # None /\ The(T[i].cmd).iterations = T[i].iteration
        /\ LoopDone => (T # <<>> /\ T[Len(T)].iteration = {config.iterations})

\* C4 witness: a completed run resumed from b > 0 in several segments
C4_Witness ==
    /\ pc = "Completed"
    /\ resume_iter > 0
    /\ Len(Trains) >= 2

\* C5: when the resolved start is >= total no training call is ever made,
\* the flow makes the render call without iteration and then the metrics
\* call (each with a child process exactly when its stage is enabled, the
\* render command without --iteration), nothing else, and the run ends
\* Completed with both calls made.
C5_CompleteRunOnlyEvaluates ==
    resume_iter >= config.iterations =>
        /\ Trains = <<>>
        /\ pc \in {"early_render", "early_metrics", "leave", "summary", "Completed"}
        /\ \E n \in 0..2 :
              Stages(trace) =
                 SubSeq(<<Stage("render", None, None), Stage("metrics", None, None)>>, 1, n)
        /\ \A i \in 1..Len(trace) :
              /\ trace[i].cmd # None <=>
                    (IF trace[i].stage = "render" THEN config.enable_render
                                                  ELSE config.enable_metrics)
              /\ trace[i].cmd # None => The(trace[i].cmd).iteration = None
        /\ pc \in {"leave", "summary", "Completed"} => Len(trace) = 2
        /\ exit_status = IF pc = "Completed" THEN {0} ELSE None

\* C5 witness: a run found complete on disk ended Completed after one pass
C5_Witness ==
    /\ pc = "Completed"
    /\ resume_iter >= config.iterations
    /\ Len(Spawned) = 2

\* the calls of the final pass: stage calls without an iteration
FinalPassCalls(stage) ==
    SelectSeq(trace, LAMBDA c : c.stage = stage /\ c.iteration = None)

\* the run of the scenario of spec 8: total MaxIter, test = save =
\* <<1, MaxIter>>, fresh start, intermediate evaluation on
ScenarioRun ==
    /\ config.iterations = MaxIter
    /\ config.test_iterations = <<1, MaxIter>>
    /\ config.save_iterations = <<1, MaxIter>>
    /\ config.enable_intermediate_eval
    /\ resume_iter = 0
    /\ FlowRan

\* C6: a pass without iteration is made at most once per run and only as
\* the last two stage calls; a Completed run has made it, render then
\* metrics, after every training call and every boundary evaluation, its
\* render command without --iteration; with intermediate evaluation on each
\* training call before it is followed by the render and the metrics call
\* of its end.  In the scenario the calls are train [0,1), evaluation at 1,
\* train [1,MaxIter), evaluation at MaxIter, final pass.
C6_OneFinalPass ==
    LET n == Len(trace) IN
    /\ Len(FinalPassCalls("render")) <= 1 /\ Len(FinalPassCalls("metrics")) <= 1
    /\ \A i \in 1..n :
          (trace[i].stage # "train" /\ trace[i].iteration = None) =>
              /\ i >= n - 1
              /\ trace[i].stage = "metrics" => (i = n /\ i > 1 /\ trace[i - 1].stage = "render"
                                                /\ trace[i - 1].iteration = None)
              /\ trace[i].cmd # None => The(trace[i].cmd).iteration = None
    /\ pc = "Completed" =>
          /\ n >= 2
          /\ Stages(SubSeq(trace, n - 1, n)) =
                <<Stage("render", None, None), Stage("metrics", None, None)>>
          /\ trace[n - 1].cmd # None <=> config.enable_render
          /\ trace[n].cmd # None <=> config.enable_metrics
          /\ (config.enable_intermediate_eval /\ resume_iter < config.iterations) =>
                \A i \in 1..(n - 2) :
                    trace[i].stage = "train" =>
                        /\ i + 2 <= n - 2
                        /\ Stages(SubSeq(trace, i + 1, i + 2)) =
                              <<Stage("render", None, trace[i].iteration),
                                Stage("metrics", None, trace[i].iteration)>>
          /\ ScenarioRun =>
                Stages(trace) =
                   <<Stage("train", {0}, {1}),
                     Stage("render", None, {1}), Stage("metrics", None, {1}),
                     Stage("train", {1}, {MaxIter}),
                     Stage("render", None, {MaxIter}), Stage("metrics", None, {MaxIter}),
                     Stage("render", None, None), Stage("metrics", None, None)>>

\* C6 witness: the scenario run, completed, every stage with a child
C6_Witness ==
    /\ pc = "Completed"
    /\ ScenarioRun
    /\ Len(Spawned) = Len(trace)
    /\ Len(trace) >= 8

\* C7: with intermediate evaluation on and start < total the boundaries, and
\* the ends of the training calls made, are strictly increasing and lie in
\* (start, total].
C7_BoundariesIncrease ==
    (config.enable_intermediate_eval /\ FlowRan /\ resume_iter < config.iterations) =>
        LET ends == [i \in 1..Len(Trains) |-> The(Trains[i].iteration)] IN
        /\ \A i \in 1..Len(eval_points) :
              resume_iter < eval_points[i] /\ eval_points[i] <= config.iterations
        /\ \A i, j \in 1..Len(eval_points) : i < j => eval_points[i] < eval_points[j]
        /\ \A i \in 1..Len(ends) : resume_iter < ends[i] /\ ends[i] <= config.iterations
        /\ \A i, j \in 1..Len(ends) : i < j => ends[i] < ends[j]
        /\ LoopDone => ends = eval_points

\* C7 witness: a completed run whose test and save lists name the same
\* point strictly between start and total
C7_Witness ==
    /\ pc = "Completed" /\ config.enable_intermediate_eval
    /\ \E p \in py_set(config.test_iterations) \cap py_set(config.save_iterations) :
          resume_iter < p /\ p < config.iterations
    /\ Len(Trains) >= 2

\* the iterations the names of a model directory stand for
NamedIterations(d) ==
    UNION ({ParseCheckpoint(f) : f \in {g \in d.files : GlobCheckpoint(g)}}
           \cup {ParseSnapshot(e.name) :
                    e \in {x \in d.point_cloud : GlobSnapshot(x.name) /\ x.is_dir}})

\* C8: the inventory get_resume_iteration has scanned is sorted, holds no
\* iteration twice, and holds exactly the iterations named by the
\* chkpnt<N>.pth files and the point_cloud/iteration_<N> directories.
C8_InventorySortedDistinct ==
    existing_checkpoints # None =>
        LET inv == The(existing_checkpoints) IN
        /\ \A i, j \in 1..Len(inv) : i < j => inv[i] < inv[j]
        /\ Trains = <<>> => py_set(inv) = NamedIterations(model_dir)

\* C9: with resume_training false the resolved start is 0, and the first
\* training call starts at 0 as the first segment, without --start_checkpoint.
C9_NoResumeStartsAtZero ==
    ~config.resume_training =>
        /\ resume_iter = 0
        /\ Trains # <<>> =>
              /\ Trains[1].start = {0} /\ Trains[1].first = {TRUE}
              /\ The(Trains[1].cmd).start_checkpoint = None

\* C9 witness: resume is off, the directory holds checkpoints, and
\* resume_from_iteration names one of them; the first training call is made
C9_Witness ==
    /\ ~config.resume_training
    /\ Len(trace) = 1 /\ trace[1].stage = "train"
    /\ config.resume_from_iteration \in py_set(detect_existing_checkpoints(model_dir))
    /\ config.resume_from_iteration > 0

\* C10: with resume_training true, resume_from_iteration -1 and a scanned
\* inventory that is not empty, the resolved start is the largest iteration
\* of the inventory.
C10_AutoResumeTakesLatest ==
    (/\ config.resume_training
     /\ config.resume_from_iteration = -1
     /\ existing_checkpoints # None
     /\ The(existing_checkpoints) # <<>>) =>
        LET found == py_set(The(existing_checkpoints)) IN
        /\ resume_iter \in found
        /\ \A n \in found : n <= resume_iter

\* C10 witness: the inventory held two different iterations and training
\* went on from the later one
C10_Witness ==
    /\ config.resume_training /\ config.resume_from_iteration = -1
    /\ existing_checkpoints # None
    /\ Cardinality(py_set(The(existing_checkpoints))) >= 2
    /\ Trains # <<>>
    /\ Trains[1].start = {resume_iter}
    /\ resume_iter > 0

\* the run is on the abort path
Aborting == pc \in {"inner_unwind", "unwind", "except", "Aborted"}

\* C11: with resume_training true, a specific resume_from_iteration v and a
\* scanned inventory that is not empty, the resolved start is v exactly when
\* v is in the inventory, otherwise it is the largest iteration of the
\* inventory, and the run is not aborted for it.
C11_ExplicitResumeChecked ==
    (/\ config.resume_training
     /\ config.resume_from_iteration # -1
     /\ existing_checkpoints # None
     /\ The(existing_checkpoints) # <<>>) =>
        LET found == py_set(The(existing_checkpoints))
            v == config.resume_from_iteration
        IN /\ resume_iter = v <=> v \in found
           /\ v \notin found =>
                 /\ resume_iter \in found
                 /\ \A n \in found : n <= resume_iter
           /\ Aborting => "train" \in failed

\* C11 witness: v lies between two iterations of the inventory, is none of
\* them, and the run went on from the larger and completed
C11_Witness ==
    /\ config.resume_training
    /\ existing_checkpoints # None
    /\ LET found == py_set(The(existing_checkpoints))
           v == config.resume_from_iteration
       IN /\ v \notin found
          /\ \E a, b \in found : a < v /\ v < b /\ resume_iter = b
    /\ pc = "Completed"

\* C12: a training call for start 0 made as the first segment carries no
\* --start_checkpoint, whatever the model directory holds.
C12_FreshFirstSegmentNoResumeFlag ==
    \A i \in 1..Len(Trains) :
        (Trains[i].start = {0} /\ Trains[i].first = {TRUE}) =>
            /\ Trains[i].cmd # None
            /\ The(Trains[i].cmd).start_checkpoint = None

\* C12 witness: the first segment of a fresh run was spawned while
\* chkpnt0.pth was in the model directory
C12_Witness ==
    /\ Trains # <<>>
    /\ Trains[1].start = {0} /\ Trains[1].first = {TRUE}
    /\ model_dir.exists /\ CheckpointName(0) \in model_dir.files
    /\ proc # None

\* C13: a training call that is not the first segment of a fresh run
\* carries --start_checkpoint exactly when chkpnt<start>.pth is in the model
\* directory, its value is that file, the process is spawned either way, and
\* the run is aborted only by a failed training process.  (The trainer
\* writes checkpoints of later iterations only, so the file is there now
\* exactly when it was there at the call.)
C13_ResumeFlagIffCheckpointFile ==
    /\ \A i \in 1..Len(Trains) :
          LET t == Trains[i]
              checkpoint_file == CheckpointName(The(t.start))
          IN (The(t.start) > 0 \/ ~The(t.first)) =>
                /\ t.cmd # None
                /\ The(t.cmd).start_checkpoint =
                      IF model_dir.exists /\ checkpoint_file \in model_dir.files
                      THEN {checkpoint_file} ELSE None
    /\ (Trains # <<>> /\ Aborting) => "train" \in failed

\* C13 witness: a run completed in which one later segment found its
\* checkpoint file and another did not
C13_Witness ==
    /\ pc = "Completed"
    /\ \E i, j \in 1..Len(Trains) :
          /\ The(Trains[i].start) > 0 /\ The(Trains[j].start) > 0
          /\ The(Trains[i].cmd).start_checkpoint = None
          /\ The(Trains[j].cmd).start_checkpoint # None

ValidationFailed ==
    paths # None /\ ~(The(paths).toolchain_exists /\ The(paths).source_exists)

\* load_config has raised one of its errors
LoadFailed == paths = None /\ exc \in {{e} : e \in LoadErrors}

\* C15: the exit status is set exactly when the run has ended; it is 0
\* exactly when the run is Completed, which no fatal error and no interrupt
\* precedes; 1 after a missing path, a failed training process or a job
\* file that could not be loaded, unless the operator interrupted the run;
\* and 130 exactly when the operator interrupted it, wherever that was.
C15_ExitStatus ==
    /\ exit_status # None <=> pc \in Ended
    /\ exit_status = {0} <=> pc = "Completed"
    /\ exit_status = {1} <=> pc \in {"Aborted", "Uncaught"}
    /\ exit_status = {130} <=> pc = "Interrupted"
    /\ pc = "Completed" =>
          (exc = None /\ ~ValidationFailed /\ ~LoadFailed /\ "train" \notin failed)
    /\ (pc \in Ended /\ exc # {"KeyboardInterrupt"}) =>
          ((ValidationFailed \/ LoadFailed \/ "train" \in failed) => exit_status = {1})
    /\ (pc \in Ended /\ exc = {"KeyboardInterrupt"}) => exit_status = {130}
    /\ pc = "Interrupted" => exc = {"KeyboardInterrupt"}

\* C15 witness: the operator interrupted the run while the metrics process
\* of the final pass was running, render and training done, and the run
\* ended with status 130
C15_Witness ==
    /\ pc = "Interrupted" /\ exit_status = {130}
    /\ Len(trace) >= 3
    /\ trace[Len(trace)].stage = "metrics" /\ trace[Len(trace)].cmd # None
    /\ trace[Len(trace)].iteration = None
    /\ Trains # <<>>

\* C16: once validate_paths has found the toolchain directory or the source
\* data missing, the run is on its way out with status 1 and no process
\* has run or runs: no command of the installation, no training, render or
\* metrics call.
C16_ValidationFailureSpawnsNothing ==
    ValidationFailed =>
        /\ pc \in {"except", "Aborted"}
        /\ setup_log = <<>>
        /\ trace = <<>>
        /\ proc = None
        /\ exit_status = IF pc = "Aborted" THEN {1} ELSE None

\* C16 witness: the toolchain is there, the source data is not, the job asks
\* for the installation, and the run was aborted
C16_Witness ==
    /\ pc = "Aborted"
    /\ paths # None
    /\ The(paths).toolchain_exists /\ ~The(paths).source_exists
    /\ config.install_accelerated_rasterizer

\* C17: a failed step of the installation never aborts the run: after it the
\* run is not on the abort path unless a training process has failed.
C17_InstallFailureAbsorbed ==
    "setup" \in failed => (Aborting => "train" \in failed)

\* C18: at most one child process runs at a time, and it is the one of the
\* last stage call; with intermediate evaluation on and start < total, a
\* stage call that follows a training call is the render call of that
\* segment's end, its command, if any, selecting that iteration, the one
\* after that is the metrics call of that end, and a training call that is
\* not the first call follows such a metrics call: every process of a
\* segment has exited before the next training process is spawned.
C18_StagesSequential ==
    LET n == Len(trace) IN
    /\ Cardinality(proc) <= 1
    /\ proc # None => (n > 0 /\ trace[n].cmd = proc)
    /\ (config.enable_intermediate_eval /\ resume_iter < config.iterations) =>
          \A i \in 1..n :
             trace[i].stage = "train" =>
                /\ i + 1 <= n =>
                      /\ trace[i + 1].stage = "render"
                      /\ trace[i + 1].iteration = trace[i].iteration
                      /\ trace[i + 1].cmd # None <=> config.enable_render
                      /\ trace[i + 1].cmd # None =>
                            The(trace[i + 1].cmd).iteration = trace[i].iteration
                /\ i + 2 <= n =>
                      /\ trace[i + 2].stage = "metrics"
                      /\ trace[i + 2].iteration = trace[i].iteration
                      /\ trace[i + 2].cmd # None <=> config.enable_metrics
                /\ i > 1 =>
                      /\ i > 3
                      /\ trace[i - 1].stage = "metrics"
                      /\ trace[i - 1].iteration = trace[i].start

\* C18 witness: the training process of the second segment is running
\* after the render and the metrics process of the first have run
C18_Witness ==
    /\ config.enable_intermediate_eval
    /\ Len(trace) = 4
    /\ trace[1].stage = "train" /\ trace[4].stage = "train"
    /\ trace[2].cmd # None /\ trace[3].cmd # None
    /\ proc = trace[4].cmd /\ proc # None

\* C19: when the resolved start is b > 0, the first training call of the
\* run starts at b and its command carries --start_checkpoint chkpnt<b>.pth.
C19_ResumedRunContinuesFromCheckpoint ==
    (resume_iter > 0 /\ Trains # <<>>) =>
        /\ Trains[1].start = {resume_iter}
        /\ Trains[1].cmd # None
        /\ The(Trains[1].cmd).start_checkpoint = {CheckpointName(resume_iter)}

\* C20: with intermediate evaluation off and start < total there is at most
\* one training call, made with a process, for [start, total), as first
\* segment exactly when start is 0; no render or metrics call has an
\* iteration and no render command selects one; and the Completed run has
\* made the training call, then one render and one metrics call.
C20_SingleSegment ==
    (~config.enable_intermediate_eval /\ FlowRan /\ resume_iter < config.iterations) =>
        /\ Len(Trains) <= 1
        /\ (pc # "single_train" \/ proc # None) => Len(Trains) = 1
        /\ \A i \in 1..Len(Trains) :
              /\ Trains[i].start = {resume_iter}
              /\ Trains[i].iteration = {config.iterations}
              /\ Trains[i].first = {resume_iter = 0}
              /\ Trains[i].cmd # None
              /\ The(Trains[i].cmd).iterations = {config.iterations}
        /\ \A i \in 1..Len(trace) :
              trace[i].stage # "train" =>
                 /\ trace[i].iteration = None
                 /\ trace[i].cmd # None => The(trace[i].cmd).iteration = None
        /\ pc = "Completed" =>
              Stages(trace) = <<Stage("train", {resume_iter}, {config.iterations}),
                                Stage("render", None, None),
                                Stage("metrics", None, None)>>

\* C20 witness: a run resumed from b > 0 short of total, with test and save
\* points between, completed with three processes
C20_Witness ==
    /\ ~config.enable_intermediate_eval
    /\ pc = "Completed"
    /\ 0 < resume_iter /\ resume_iter < config.iterations
    /\ \E p \in py_set(config.test_iterations \o config.save_iterations) :
          resume_iter < p /\ p < config.iterations
    /\ Len(Spawned) = 3

\* the --iterations arguments of the training processes spawned so far
IterationTargets ==
    [i \in 1..Len(Trains) |-> The(The(Trains[i].cmd).iterations)]

\* the targets are the segments' ends, rise strictly, do not pass the
\* configured total and, when all training is done, end at it
TargetsFollowSegments ==
    /\ \A i \in 1..Len(Trains) :
          /\ Trains[i].cmd # None
          /\ The(Trains[i].cmd).iterations = Trains[i].iteration
    /\ \A i, j \in 1..Len(Trains) : i < j => IterationTargets[i] < IterationTargets[j]
    /\ \A i \in 1..Len(Trains) : IterationTargets[i] <= config.iterations
    /\ (LoopDone /\ Trains # <<>>) =>
          IterationTargets[Len(Trains)] = config.iterations

\* C21: every step of a run leaves the configuration, the configured total
\* included, as it was, and leads to a state in which each training
\* command's --iterations is the end of its own segment, the targets of the
\* run rise strictly and none is beyond the configured total, and, once the
\* last training call has returned, the last target is the configured total.
C21_IterationTargetIsSegmentEnd ==
    [][config' = config /\ TargetsFollowSegments']_vars

\* C21 witness: a completed run of several segments, the first of which had
\* a target below the configured total
C21_Witness ==
    /\ pc = "Completed"
    /\ Len(Trains) >= 2
    /\ IterationTargets[1] < config.iterations
    /\ IterationTargets[Len(Trains)] = config.iterations

\* the render and metrics calls made so far that spawned a process
SpawnedOf(stage) == SelectSeq(trace, LAMBDA c : c.stage = stage /\ c.cmd # None)

\* C22: a render call spawns a process exactly when rendering is enabled
\* and a metrics call exactly when metrics is enabled, so a disabled stage
\* never spawns; and whatever the two toggles say, the stage calls made so
\* far are the first of the calls planned from the resolved start, which do
\* not depend on the toggles, and a run that is Completed has made them all.
C22_DisabledStagesAreNoOps ==
    /\ ~config.enable_render => SpawnedOf("render") = <<>>
    /\ ~config.enable_metrics => SpawnedOf("metrics") = <<>>
    /\ \A i \in 1..Len(trace) :
          /\ trace[i].stage = "render" => (trace[i].cmd # None <=> config.enable_render)
          /\ trace[i].stage = "metrics" => (trace[i].cmd # None <=> config.enable_metrics)
    /\ LET plan == PlannedStages([config EXCEPT !.enable_render = TRUE,
                                                !.enable_metrics = TRUE],
                                 resume_iter)
       IN /\ Len(trace) <= Len(plan)
          /\ Stages(trace) = SubSeq(plan, 1, Len(trace))
          /\ pc = "Completed" => Len(trace) = Len(plan)
    /\ (~config.enable_render \/ ~config.enable_metrics) =>
          (Aborting => ("train" \in failed \/ trace = <<>>))

\* C22 witness: rendering is off and metrics is on, and a run of several
\* segments completed without a render process, its metrics processes run
C22_Witness ==
    /\ ~config.enable_render /\ config.enable_metrics
    /\ pc = "Completed"
    /\ Len(Trains) >= 2
    /\ SpawnedOf("render") = <<>>
    /\ Len(SpawnedOf("metrics")) >= 3

\* C23: with resume_training true and a scanned inventory that is empty,
\* the resolved start is 0, the first training call is made for start 0 as
\* the first segment with a command without --start_checkpoint, and the run
\* is not aborted unless a training process fails.
C23_EmptyInventoryStartsFresh ==
    (config.resume_training /\ existing_checkpoints = {<<>>}) =>
        /\ resume_iter = 0
        /\ Trains # <<>> =>
              /\ Trains[1].start = {0} /\ Trains[1].first = {TRUE}
              /\ Trains[1].cmd # None
              /\ The(Trains[1].cmd).start_checkpoint = None
        /\ Aborting => "train" \in failed
        /\ pc \notin {"main_except", "Uncaught", "Interrupted"}

\* C23 witness: resume is on with a specific resume_from_iteration, the
\* model directory does not exist, and the first training process is running
C23_Witness ==
    /\ config.resume_training /\ config.resume_from_iteration > 0
    /\ existing_checkpoints = {<<>>}
    /\ ~model_dir.exists
    /\ Len(trace) = 1 /\ trace[1].stage = "train"
    /\ proc # None

====
